---- MODULE Spec2Model ----
(***************************************************************************)
(* Model of outetts/version/v1/interface.py: the InterfaceHF /             *)
(* InterfaceGGUF / InterfaceEXL2 facades (generate, generate_stream,       *)
(* change_language, load_default_speaker, create_speaker).                 *)
(*                                                                         *)
(* The backend model, the prompt processor, the audio codec, whisper and   *)
(* the forced-alignment engine are collaborators: what they return (or     *)
(* whether they raise) is an input chosen with \E.                         *)
(***************************************************************************)
EXTENDS Integers, Sequences, FiniteSets, TLC

VARIABLES
    languages,       \* self.languages (config.languages)
    language,        \* self.language
    max_seq_length,  \* self.config.max_seq_length
    last,            \* outcome of the most recent completed call
    gen,             \* the generator object returned by generate_stream
    cs               \* the create_speaker call in progress

vars == <<languages, language, max_seq_length, last, gen, cs>>

----------------------------------------------------------------------------
(* Bounds *)

MaxTokens == 5      \* most tokens the backend stream emits in one run
MaxChunk == 3       \* chunk_size ranges over 1..MaxChunk
MaxGenLen == 2      \* most tokens the backend generates in one generate
MaxWords == 2       \* most words returned by alignment
MaxCodes == 3       \* longest encoding full_codes[0][0]
MaxSample == 8      \* largest sample index x1
sample_rate == 150  \* ctc.sample_rate, scaled down so that x1 stays small

----------------------------------------------------------------------------
(* Strings and str.lower().strip() *)

RawLanguages == {"en", "ja", " JA ", "fr", "xx"}
RawNames == {"male_1", " Male_1 ", "male_2", "female_3"}

\* s.lower().strip() on the strings the model uses
LowerStrip(s) ==
    CASE s = " JA " -> "ja"
      [] s = " Male_1 " -> "male_1"
      [] OTHER -> s

\* get_speaker_path(speaker_name): the file of a bundled profile
get_speaker_path(speaker_name) == <<"default_speakers", speaker_name, "json">>

_DEFAULT_SPEAKERS ==
    "en" :> ( "male_1" :> get_speaker_path("en_male_1")
           @@ "male_2" :> get_speaker_path("en_male_2")
           @@ "male_3" :> get_speaker_path("en_male_3")
           @@ "male_4" :> get_speaker_path("en_male_4")
           @@ "female_1" :> get_speaker_path("en_female_1")
           @@ "female_2" :> get_speaker_path("en_female_2") )
 @@ "ja" :> ( "male_1" :> get_speaker_path("ja_male_1")
           @@ "female_1" :> get_speaker_path("ja_female_1")
           @@ "female_2" :> get_speaker_path("ja_female_2")
           @@ "female_3" :> get_speaker_path("ja_female_3") )
 @@ "ko" :> ( "male_1" :> get_speaker_path("ko_male_1")
           @@ "male_2" :> get_speaker_path("ko_male_2")
           @@ "female_1" :> get_speaker_path("ko_female_1")
           @@ "female_2" :> get_speaker_path("ko_female_2") )
 @@ "zh" :> ( "male_1" :> get_speaker_path("zh_male_1")
           @@ "female_1" :> get_speaker_path("zh_female_1") )

NoPath == <<>>

----------------------------------------------------------------------------
(* Values *)

None == [none |-> TRUE, v |-> 0]
Some(n) == [none |-> FALSE, v |-> n]

\* torch.Tensor or None in ModelOutput.audio
AudioNone == [present |-> FALSE, samples |-> <<>>]
Wave(codes) == [present |-> TRUE, samples |-> codes]

codec_sr == 24000   \* self.audio_codec.sr

ModelOutput(audio, sr) == [audio |-> audio, sr |-> sr]
NoOutput == ModelOutput(AudioNone, 0)

\* a token is <<position in the backend's output, kind>>
Kinds == {"txt", "aud"}
IsAudio(t) == t[2] = "aud"

\* every sequence over S of length at most n
RECURSIVE SeqsUpTo(_, _)
SeqsUpTo(S, n) ==
    IF n = 0 THEN {<<>>}
    ELSE LET shorter == SeqsUpTo(S, n - 1)
         IN  shorter \cup {Append(s, e) : s \in {q \in shorter : Len(q) = n - 1}, e \in S}

MkTokens(kinds) == [i \in 1..Len(kinds) |-> <<i, kinds[i]>>]

----------------------------------------------------------------------------
(* Collaborators *)

\* prompt_processor.extract_audio_from_tokens: the audio tokens, in order
extract_audio_from_tokens(tokens) == SelectSeq(tokens, IsAudio)

\* prepare_prompt: the prompt carries the active language; with a speaker
\* it also carries the speaker's codec tokens
prepare_prompt(lang, speaker) ==
    [language |-> lang,
     input_ids |-> IF speaker THEN <<<<0, "txt">>, <<0, "aud">>>> ELSE <<<<0, "txt">>>>]

----------------------------------------------------------------------------
(* get_audio without the "no audio tokens" early return *)
get_audio_always_decodes(tokens, decodeOk) ==
    LET output == extract_audio_from_tokens(tokens) IN
    IF decodeOk
    THEN [raised |-> FALSE, audio |-> Wave(output), decodeInvoked |-> TRUE, output |-> output]
    ELSE [raised |-> TRUE, audio |-> AudioNone, decodeInvoked |-> TRUE, output |-> output]

(* InterfaceHF.get_audio *)

get_audio(tokens, decodeOk) ==
    LET output == extract_audio_from_tokens(tokens) IN
    IF output = <<>>
    THEN [raised |-> FALSE, audio |-> AudioNone, decodeInvoked |-> FALSE, output |-> output]
    ELSE IF decodeOk
         THEN [raised |-> FALSE, audio |-> Wave(output), decodeInvoked |-> TRUE, output |-> output]
         ELSE [raised |-> TRUE, audio |-> AudioNone, decodeInvoked |-> TRUE, output |-> output]

(* the gate with >= in place of > *)
check_generation_max_length_off_by_one(max_length, ceiling) ==
    IF max_length.none THEN TRUE
    ELSE max_length.v >= ceiling

(* InterfaceHF.check_generation_max_length: TRUE when it raises ValueError *)
check_generation_max_length(max_length, ceiling) ==
    IF max_length.none THEN TRUE
    ELSE max_length.v > ceiling

----------------------------------------------------------------------------
(* State *)

NoCall ==
    [op |-> "none", variant |-> "", arg |-> "", max_length |-> None,
     status |-> "", lang |-> "", invoked |-> FALSE,
     tokens |-> <<>>, extracted |-> <<>>, decodeInvoked |-> FALSE,
     out |-> NoOutput, path |-> NoPath]

NoGen ==
    [pc |-> "none", max_length |-> None, chunk_size |-> 1, promptLang |-> "",
     invoked |-> FALSE, emitted |-> 0, generated_tokens |-> <<>>,
     yielded |-> <<>>, chunks |-> <<>>, event |-> "", caught |-> 0,
     error |-> ""]

NoTranscript == [none |-> TRUE, v |-> ""]
Transcript(s) == [none |-> FALSE, v |-> s]

NoProfile == [text |-> "", words |-> <<>>, language |-> ""]

NoSpeakerCall ==
    [pc |-> "idle", given |-> NoTranscript, transcript |-> "", trace |-> <<>>,
     words |-> <<>>, full_codes |-> <<>>, error |-> "", profile |-> NoProfile]

LanguageConfigs == {{"en", "ja", "fr"}, {"en", "zh"}}
CeilingChoices == {4096}

MaxLengthInputs(ceiling) == {None, Some(ceiling - 1), Some(ceiling), Some(ceiling + 1)}
StreamMaxLengths(ceiling) == {None, Some(ceiling), Some(ceiling + 1)}

Init ==
    /\ languages \in LanguageConfigs
    /\ language = "en"
    /\ max_seq_length \in CeilingChoices
    /\ last = NoCall
    /\ gen = NoGen
    /\ cs = NoSpeakerCall

\* the caller is between calls: no generator body is executing
Idle == gen.pc = "none"
Suspended == gen.pc \in {"created", "suspended", "suspended_final", "done", "raised"}

----------------------------------------------------------------------------
(* InterfaceHF.change_language *)

\* change_language that assigns before it validates
change_language_assigns_first(L) ==
    LET l == LowerStrip(L) IN
    /\ Idle \/ Suspended
    /\ language' = l
    /\ last' = [NoCall EXCEPT !.op = "change_language", !.arg = L,
                              !.status = IF l \notin languages
                                         THEN "ValueError" ELSE "ok"]
    /\ UNCHANGED <<languages, max_seq_length, gen, cs>>

change_language(L) ==
    LET l == LowerStrip(L) IN
    /\ Idle \/ Suspended
    /\ IF l \notin languages
       THEN /\ last' = [NoCall EXCEPT !.op = "change_language", !.arg = L,
                                      !.status = "ValueError"]
            /\ UNCHANGED language
       ELSE /\ language' = l
            /\ last' = [NoCall EXCEPT !.op = "change_language", !.arg = L,
                                      !.status = "ok"]
    /\ UNCHANGED <<languages, max_seq_length, gen, cs>>

(* InterfaceHF.load_default_speaker *)

\* load_default_speaker that looks up under the configured default language
load_default_speaker_ignores_language(name) ==
    LET n == LowerStrip(name)
        l == "en"
        call == [NoCall EXCEPT !.op = "load_default_speaker", !.arg = name,
                               !.lang = l]
    IN
    /\ Idle
    /\ IF n \notin DOMAIN _DEFAULT_SPEAKERS[l]
       THEN last' = [call EXCEPT !.status = "ValueError"]
       ELSE last' = [call EXCEPT !.status = "ok", !.path = _DEFAULT_SPEAKERS[l][n]]
    /\ UNCHANGED <<languages, language, max_seq_length, gen, cs>>

load_default_speaker(name) ==
    LET n == LowerStrip(name)
        l == LowerStrip(language)
        call == [NoCall EXCEPT !.op = "load_default_speaker", !.arg = name,
                               !.lang = l]
    IN
    /\ Idle
    /\ IF l \notin DOMAIN _DEFAULT_SPEAKERS
       THEN last' = [call EXCEPT !.status = "ValueError"]
       ELSE LET speakers == _DEFAULT_SPEAKERS[l] IN
            IF n \notin DOMAIN speakers
            THEN last' = [call EXCEPT !.status = "ValueError"]
            ELSE last' = [call EXCEPT !.status = "ok", !.path = speakers[n]]
    /\ UNCHANGED <<languages, language, max_seq_length, gen, cs>>

----------------------------------------------------------------------------
(* generate of InterfaceHF, InterfaceGGUF and InterfaceEXL2 *)

Variants == {"HF", "GGUF", "EXL2"}

\* what self.model.generate returns: the full-precision backend returns the
\* prompt followed by the new tokens, the other two the new tokens
model_generate(variant, input_ids, new_tokens) ==
    IF variant = "HF" THEN input_ids \o new_tokens ELSE new_tokens

\* the token list handed to get_audio: output[input_ids.size()[-1]:] for
\* InterfaceHF, output for the others
generated_part(variant, input_ids, output) ==
    IF variant = "HF"
    THEN SubSeq(output, Len(input_ids) + 1, Len(output))
    ELSE output

generate(variant, speaker, max_length, new_tokens, decodeOk) ==
    LET prompt == prepare_prompt(language, speaker)
        call == [NoCall EXCEPT !.op = "generate", !.variant = variant,
                               !.max_length = max_length,
                               !.lang = prompt.language]
    IN
    /\ Idle
    /\ IF check_generation_max_length(max_length, max_seq_length)
       THEN last' = [call EXCEPT !.status = "ValueError"]
       ELSE LET output == model_generate(variant, prompt.input_ids, new_tokens)
                tokens == generated_part(variant, prompt.input_ids, output)
                r == get_audio(tokens, decodeOk)
                ran == [call EXCEPT !.invoked = TRUE, !.tokens = tokens,
                                    !.extracted = r.output,
                                    !.decodeInvoked = r.decodeInvoked]
            IN  IF r.raised
                THEN last' = [ran EXCEPT !.status = "DecodeError"]
                ELSE last' = [ran EXCEPT !.status = "ok",
                                         !.out = ModelOutput(r.audio, codec_sr)]
    /\ UNCHANGED <<languages, language, max_seq_length, gen, cs>>

----------------------------------------------------------------------------
(* InterfaceGGUF.generate_stream: a generator function.  The call only      *)
(* creates the generator; the body runs when the caller advances it.  text  *)
(* and speaker reach prepare_prompt only, so the speaker is drawn where the *)
(* prompt is built.                                                         *)

generate_stream(max_length, chunk_size) ==
    /\ Idle
    /\ gen' = [NoGen EXCEPT !.pc = "created", !.max_length = max_length,
                            !.chunk_size = chunk_size]
    /\ last' = [NoCall EXCEPT !.op = "generate_stream", !.variant = "GGUF",
                              !.max_length = max_length, !.status = "generator"]
    /\ UNCHANGED <<languages, language, max_seq_length, cs>>

\* next(g) on a generator that has not started: lines 364-383
StreamStart(speaker) ==
    /\ gen.pc = "created"
    /\ LET prompt == prepare_prompt(language, speaker) IN
       IF check_generation_max_length(gen.max_length, max_seq_length)
       THEN gen' = [gen EXCEPT !.pc = "raised", !.error = "ValueError",
                               !.promptLang = prompt.language,
                               !.event = "raise"]
       ELSE gen' = [gen EXCEPT !.pc = "running", !.invoked = TRUE,
                               !.promptLang = prompt.language,
                               !.event = "start"]
    /\ UNCHANGED <<languages, language, max_seq_length, last, cs>>

\* StreamToken that clears the buffer when the chunk's decode fails
StreamToken_drops_failed_chunk(kind, decodeOk) ==
    /\ gen.pc = "running"
    /\ gen.emitted < MaxTokens
    /\ LET token == <<gen.emitted + 1, kind>>
           generated_tokens == Append(gen.generated_tokens, token)
           took == [gen EXCEPT !.emitted = @ + 1,
                               !.generated_tokens = generated_tokens]
       IN
       IF Len(generated_tokens) % gen.chunk_size = 0
       THEN LET r == get_audio(generated_tokens, decodeOk) IN
            IF r.raised
            THEN gen' = [took EXCEPT !.event = "caught", !.caught = @ + 1,
                                     !.generated_tokens = <<>>]
            ELSE gen' = [took EXCEPT
                           !.pc = "suspended",
                           !.yielded = Append(@, ModelOutput(r.audio, codec_sr)),
                           !.chunks = Append(@, generated_tokens),
                           !.event = "yield"]
       ELSE gen' = [took EXCEPT !.event = "append"]
    /\ UNCHANGED <<languages, language, max_seq_length, last, cs>>

\* the backend stream hands over one more token: lines 384-395
StreamToken(kind, decodeOk) ==
    /\ gen.pc = "running"
    /\ gen.emitted < MaxTokens
    /\ LET token == <<gen.emitted + 1, kind>>
           generated_tokens == Append(gen.generated_tokens, token)
           took == [gen EXCEPT !.emitted = @ + 1,
                               !.generated_tokens = generated_tokens]
       IN
       IF Len(generated_tokens) % gen.chunk_size = 0
       THEN LET r == get_audio(generated_tokens, decodeOk) IN
            IF r.raised
            THEN gen' = [took EXCEPT !.event = "caught", !.caught = @ + 1]
            ELSE gen' = [took EXCEPT
                           !.pc = "suspended",
                           !.yielded = Append(@, ModelOutput(r.audio, codec_sr)),
                           !.chunks = Append(@, generated_tokens),
                           !.event = "yield"]
       ELSE gen' = [took EXCEPT !.event = "append"]
    /\ UNCHANGED <<languages, language, max_seq_length, last, cs>>

\* StreamEnd without the final flush
StreamEnd_no_flush(decodeOk) ==
    /\ gen.pc = "running"
    /\ gen' = [gen EXCEPT !.pc = "done", !.event = "return"]
    /\ UNCHANGED <<languages, language, max_seq_length, last, cs>>

\* the backend stream is exhausted: lines 397-403
StreamEnd(decodeOk) ==
    /\ gen.pc = "running"
    /\ IF gen.generated_tokens # <<>>
       THEN LET r == get_audio(gen.generated_tokens, decodeOk) IN
            IF r.raised
            THEN gen' = [gen EXCEPT !.pc = "raised", !.error = "DecodeError",
                                    !.event = "raise"]
            ELSE gen' = [gen EXCEPT
                           !.pc = "suspended_final",
                           !.yielded = Append(@, ModelOutput(r.audio, codec_sr)),
                           !.chunks = Append(@, gen.generated_tokens),
                           !.event = "yield"]
       ELSE gen' = [gen EXCEPT !.pc = "done", !.event = "return"]
    /\ UNCHANGED <<languages, language, max_seq_length, last, cs>>

\* StreamResume that keeps the yielded tokens in the buffer
StreamResume_keeps_buffer ==
    /\ gen.pc \in {"suspended", "suspended_final"}
    /\ IF gen.pc = "suspended"
       THEN gen' = [gen EXCEPT !.pc = "running", !.event = "resume"]
       ELSE gen' = [gen EXCEPT !.pc = "done", !.event = "return"]
    /\ UNCHANGED <<languages, language, max_seq_length, last, cs>>

\* next(g) on a generator suspended at a yield: line 392, or lines 402-403
StreamResume ==
    /\ gen.pc \in {"suspended", "suspended_final"}
    /\ IF gen.pc = "suspended"
       THEN gen' = [gen EXCEPT !.pc = "running", !.generated_tokens = <<>>,
                               !.event = "resume"]
       ELSE gen' = [gen EXCEPT !.pc = "done", !.event = "return"]
    /\ UNCHANGED <<languages, language, max_seq_length, last, cs>>

\* the caller drops the generator
StreamClose ==
    /\ Suspended
    /\ gen' = NoGen
    /\ UNCHANGED <<languages, language, max_seq_length, last, cs>>

----------------------------------------------------------------------------

Next ==
    \/ \E L \in RawLanguages : change_language(L)
    \/ \E name \in RawNames : load_default_speaker(name)
    \/ \E variant \in Variants, speaker \in BOOLEAN,
          max_length \in MaxLengthInputs(max_seq_length),
          kinds \in SeqsUpTo(Kinds, MaxGenLen), decodeOk \in BOOLEAN :
            generate(variant, speaker, max_length, MkTokens(kinds), decodeOk)
    \/ \E max_length \in StreamMaxLengths(max_seq_length),
          chunk_size \in 1..MaxChunk :
            generate_stream(max_length, chunk_size)
    \/ \E speaker \in BOOLEAN : StreamStart(speaker)
    \/ \E kind \in Kinds, decodeOk \in BOOLEAN : StreamToken(kind, decodeOk)
    \/ \E decodeOk \in BOOLEAN : StreamEnd(decodeOk)
    \/ StreamResume
    \/ StreamClose

Spec == Init /\ [][Next]_vars

----------------------------------------------------------------------------
(* InterfaceHF.create_speaker *)

TokenRate == 75

\* round(p / q) as Python rounds: to the nearest integer, ties to even
RoundHalfEven(p, q) ==
    LET f == p \div q
        r == p % q
    IN  IF 2 * r < q THEN f
        ELSE IF 2 * r > q THEN f + 1
        ELSE IF f % 2 = 0 THEN f ELSE f + 1

\* int(round((x1 / ctc.sample_rate) * 75))
EndIndex(x1) == RoundHalfEven(x1 * TokenRate, sample_rate)

Min(a, b) == IF a < b THEN a ELSE b

\* seq[start:end] for non-negative start and end
Slice(seq, start, end) == SubSeq(seq, Min(start, Len(seq)) + 1, Min(end, Len(seq)))

\* round(len(word_tokens) / 75, 2), in hundredths of a second
Duration(word_tokens) == RoundHalfEven(Len(word_tokens) * 100, TokenRate)

\* the loop without "start = end"
RECURSIVE BuildWords_start_stays(_, _, _, _)
BuildWords_start_stays(words, codes, k, start) ==
    IF k > Len(words) THEN <<>>
    ELSE LET end == EndIndex(words[k].x1)
             sliced == Slice(codes, start, end)
             word_tokens == IF sliced = <<>> THEN <<1>> ELSE sliced
         IN  <<[word |-> words[k].word,
                duration |-> Duration(word_tokens),
                codes |-> word_tokens]>>
             \o BuildWords_start_stays(words, codes, k + 1, start)

\* the loop of lines 175-188, from word k on
RECURSIVE BuildWords(_, _, _, _)
BuildWords(words, codes, k, start) ==
    IF k > Len(words) THEN <<>>
    ELSE LET end == EndIndex(words[k].x1)
             sliced == Slice(codes, start, end)
             word_tokens == IF sliced = <<>> THEN <<1>> ELSE sliced
         IN  <<[word |-> words[k].word,
                duration |-> Duration(word_tokens),
                codes |-> word_tokens]>>
             \o BuildWords(words, codes, k + 1, end)

\* what ctc.align can return: words in utterance order, so x1 never decreases
WordLists ==
    {[k \in 1..Len(xs) |-> [word |-> k, x1 |-> xs[k]]] :
        xs \in {q \in SeqsUpTo(0..MaxSample, MaxWords) :
                  /\ Len(q) >= 1
                  /\ \A k \in 1..(Len(q) - 1) : q[k] <= q[k + 1]}}

CodeValues == {1, 2}
Encodings == SeqsUpTo(CodeValues, MaxCodes)

GivenTranscripts == {NoTranscript, Transcript(""), Transcript("hello")}
WhisperResults == {"", "heard"}

\* the call, up to the transcript check: lines 153-162
create_speaker(given, heard) ==
    /\ cs.pc = "idle"
    /\ LET transcript == IF given.none THEN heard ELSE given.v
           trace == IF given.none THEN <<"transcribe">> ELSE <<>>
           call == [NoSpeakerCall EXCEPT !.given = given,
                                         !.transcript = transcript,
                                         !.trace = trace]
       IN  IF transcript = ""
           THEN cs' = [call EXCEPT !.pc = "raised", !.error = "ValueError"]
           ELSE cs' = [call EXCEPT !.pc = "checked"]
    /\ UNCHANGED <<languages, language, max_seq_length, last, gen>>

\* ctc = CTCForcedAlignment(...): line 164
CtcInit ==
    /\ cs.pc = "checked"
    /\ cs' = [cs EXCEPT !.pc = "constructed", !.trace = Append(@, "ctc_init")]
    /\ UNCHANGED <<languages, language, max_seq_length, last, gen>>

\* words = ctc.align(...): line 165
CtcAlign(ok, words) ==
    /\ cs.pc = "constructed"
    /\ IF ok
       THEN cs' = [cs EXCEPT !.pc = "aligned", !.words = words,
                             !.trace = Append(@, "align")]
       ELSE cs' = [cs EXCEPT !.pc = "raised", !.error = "AlignError",
                             !.trace = Append(@, "align")]
    /\ UNCHANGED <<languages, language, max_seq_length, last, gen>>

\* ctc.free(): line 166
CtcFree ==
    /\ cs.pc = "aligned"
    /\ cs' = [cs EXCEPT !.pc = "freed", !.trace = Append(@, "free")]
    /\ UNCHANGED <<languages, language, max_seq_length, last, gen>>

\* full_codes = self.audio_codec.encode(...).tolist(), then the loop and the
\* return: lines 168-194
EncodeAndBuild(ok, codes) ==
    /\ cs.pc = "freed"
    /\ IF ok
       THEN LET full_codes == <<<<codes>>>> IN
            cs' = [cs EXCEPT
                     !.pc = "done",
                     !.trace = Append(@, "encode"),
                     !.full_codes = full_codes,
                     !.profile = [text |-> cs.transcript,
                                  words |-> BuildWords(cs.words, full_codes[1][1], 1, 0),
                                  language |-> language]]
       ELSE cs' = [cs EXCEPT !.pc = "raised", !.error = "EncodeError",
                             !.trace = Append(@, "encode")]
    /\ UNCHANGED <<languages, language, max_seq_length, last, gen>>

\* the call has ended; the caller may enrol another sample
SpeakerReturn ==
    /\ cs.pc \in {"done", "raised"}
    /\ cs' = NoSpeakerCall
    /\ UNCHANGED <<languages, language, max_seq_length, last, gen>>

NextSpeaker ==
    \/ \E given \in GivenTranscripts, heard \in WhisperResults :
          create_speaker(given, heard)
    \/ CtcInit
    \/ \E ok \in BOOLEAN, words \in WordLists : CtcAlign(ok, words)
    \/ CtcFree
    \/ \E ok \in BOOLEAN, codes \in Encodings : EncodeAndBuild(ok, codes)
    \/ SpeakerReturn

SpecSpeaker == Init /\ [][NextSpeaker]_vars

----------------------------------------------------------------------------
(* Properties *)

Range(seq) == {seq[i] : i \in 1..Len(seq)}

RECURSIVE Flatten(_)
Flatten(seqs) == IF seqs = <<>> THEN <<>> ELSE Head(seqs) \o Flatten(Tail(seqs))

\* the gate as the documentation states it
ExceedsCeiling(max_length) ==
    \/ max_length = None
    \/ max_length # None /\ max_length.v > max_seq_length

StreamStarted == gen.pc \notin {"none", "created"}

\* C1: a generate of any variant, and a generate_stream once its body runs,
\* with max_length None or above max_seq_length ends in ValueError without
\* the backend having been invoked; any other max_length, the ceiling
\* itself included, passes the gate and the backend is invoked.
C1_MaxLengthGate ==
    /\ last.op = "generate" =>
          IF ExceedsCeiling(last.max_length)
          THEN last.status = "ValueError" /\ ~last.invoked
          ELSE last.status # "ValueError" /\ last.invoked
    /\ StreamStarted =>
          IF ExceedsCeiling(gen.max_length)
          THEN gen.pc = "raised" /\ gen.error = "ValueError" /\ ~gen.invoked
                 /\ gen.emitted = 0 /\ gen.yielded = <<>>
          ELSE gen.error # "ValueError" /\ gen.invoked

C1_Witness ==
    /\ gen.pc = "raised"
    /\ gen.max_length = Some(max_seq_length + 1)
    /\ gen.error = "ValueError"

\* C2: a stream of N tokens consumed to its end with chunk_size c and no
\* failed decode yields ceil(N / c) outputs; output k is built from the c
\* consecutive tokens (k-1)c+1 .. kc, the last one from the N mod c remaining
\* tokens when N mod c > 0, and there is no extra output when N mod c = 0.
C2_ChunkBoundaries ==
    (gen.pc = "done" /\ gen.caught = 0) =>
        LET N == gen.emitted
            c == gen.chunk_size
            full == N \div c
            count == IF N % c = 0 THEN full ELSE full + 1
        IN  /\ Len(gen.yielded) = count
            /\ Len(gen.chunks) = count
            /\ \A k \in 1..count :
                 /\ Len(gen.chunks[k]) = IF k <= full THEN c ELSE N % c
                 /\ \A j \in 1..Len(gen.chunks[k]) :
                      gen.chunks[k][j][1] = (k - 1) * c + j

C2_Witness ==
    /\ gen.pc = "done"
    /\ gen.caught = 0
    /\ gen.emitted = 5
    /\ gen.chunk_size = 2
    /\ Len(gen.yielded) = 3

\* a step in which a chunk's decode failure was caught
CaughtStep == gen'.caught = gen.caught + 1

\* C3 as stated: when the decode at a chunk boundary fails, nothing is
\* yielded, the chunk's tokens are dropped from the buffer, and streaming
\* continues.
C3_FailedChunkDropped ==
    [][CaughtStep =>
          /\ gen'.yielded = gen.yielded
          /\ gen'.generated_tokens = <<>>
          /\ gen'.pc = "running"]_vars

\* C3 amended: when the decode at a chunk boundary fails, nothing is
\* yielded, the chunk's tokens stay in the buffer (so they are decoded again
\* with the following tokens at the next boundary), and streaming continues.
C3_FailedChunkKept ==
    [][CaughtStep =>
          /\ gen'.yielded = gen.yielded
          /\ gen'.chunks = gen.chunks
          /\ Len(gen'.generated_tokens) = Len(gen.generated_tokens) + 1
          /\ SubSeq(gen'.generated_tokens, 1, Len(gen.generated_tokens))
                = gen.generated_tokens
          /\ gen'.generated_tokens[Len(gen'.generated_tokens)][1] = gen'.emitted
          /\ gen'.pc = "running"]_vars

\* a failed chunk of two tokens came out later inside a chunk of four
C3_Witness ==
    /\ gen.caught = 1
    /\ gen.chunk_size = 2
    /\ gen.event = "yield"
    /\ Len(gen.chunks) = 1
    /\ Len(gen.chunks[1]) = 4

\* C4: a failing codec decode never reaches the caller of generate or of
\* generate_stream.
C4_DecodeErrorAbsorbed ==
    /\ last.status # "DecodeError"
    /\ gen.error # "DecodeError"

\* C5: when the backend's output holds no audio tokens, generate returns a
\* ModelOutput with absent audio and the codec's sample rate, and decode is
\* not invoked.
C5_MissingAudioTokens ==
    (last.op = "generate" /\ last.invoked
        /\ extract_audio_from_tokens(last.tokens) = <<>>) =>
        /\ last.status = "ok"
        /\ last.out = ModelOutput(AudioNone, codec_sr)
        /\ ~last.decodeInvoked

C5_Witness ==
    /\ last.op = "generate"
    /\ last.variant = "HF"
    /\ last.invoked
    /\ Len(last.tokens) = 2
    /\ last.extracted = <<>>
    /\ last.status = "ok"

\* C6 as stated: "male_1" resolves to the en entry while the active language
\* is en, and is not found while the active language is ja.
C6_Male1MissingUnderJa ==
    (last.op = "load_default_speaker" /\ LowerStrip(last.arg) = "male_1") =>
        /\ language = "en" =>
              last.status = "ok" /\ last.path = get_speaker_path("en_male_1")
        /\ language = "ja" => last.status = "ValueError"

\* C6 amended: the lookup is made under the language active at the call:
\* "male_1" resolves to the en entry under en and to the ja entry under ja;
\* a name the catalog lacks under the active language ("male_2" under ja,
\* "female_3" under en), or any name under a language the catalog lacks
\* (fr), is not found.
C6_CatalogUnderActiveLanguage ==
    last.op = "load_default_speaker" =>
        LET name == LowerStrip(last.arg) IN
        /\ (language = "en" /\ name = "male_1") =>
              last.status = "ok" /\ last.path = get_speaker_path("en_male_1")
        /\ (language = "ja" /\ name = "male_1") =>
              last.status = "ok" /\ last.path = get_speaker_path("ja_male_1")
        /\ (language = "zh" /\ name = "male_1") =>
              last.status = "ok" /\ last.path = get_speaker_path("zh_male_1")
        /\ (language = "ja" /\ name = "female_3") =>
              last.status = "ok" /\ last.path = get_speaker_path("ja_female_3")
        /\ (language = "en" /\ name = "male_2") =>
              last.status = "ok" /\ last.path = get_speaker_path("en_male_2")
        /\ (language = "ja" /\ name = "male_2") => last.status = "ValueError"
        /\ (language = "zh" /\ name \in {"male_2", "female_3"}) =>
              last.status = "ValueError"
        /\ (language = "en" /\ name = "female_3") => last.status = "ValueError"
        /\ language = "fr" => last.status = "ValueError"

C6_Witness ==
    /\ language = "ja"
    /\ last.op = "load_default_speaker"
    /\ last.arg = "male_1"
    /\ last.status = "ok"
    /\ last.path = get_speaker_path("ja_male_1")

\* a step that is a change_language call
ChangeStep == last'.op = "change_language" /\ last' # last

\* C7: change_language(L) with L (lowercased, stripped) outside the
\* configured set raises and leaves the active language as it was, otherwise
\* it makes L the active language; no other operation changes the active
\* language; every prompt built by generate or generate_stream and every
\* load_default_speaker lookup uses the active language.
C7_ActiveLanguage ==
    [][/\ ChangeStep =>
            IF LowerStrip(last'.arg) \in languages
            THEN last'.status = "ok" /\ language' = LowerStrip(last'.arg)
            ELSE last'.status = "ValueError" /\ language' = language
       /\ ~ChangeStep => language' = language
       /\ (last' # last /\ last'.op \in {"generate", "load_default_speaker"}) =>
            last'.lang = language
       /\ (gen.pc = "created" /\ gen'.pc \in {"running", "raised"}) =>
            gen'.promptLang = language]_vars

\* a stream whose prompt was built after a successful change to ja, then a
\* rejected change_language
C7_Witness ==
    /\ gen.pc = "running"
    /\ gen.promptLang = "ja"
    /\ language = "ja"
    /\ last.op = "change_language"
    /\ last.status = "ValueError"

\* C8: a create_speaker call that constructed the alignment engine has
\* executed its free by the time the call ends, whether it returns or
\* raises; and a transcript that is empty after the transcription fallback
\* ends the call before the engine is constructed or align is called.
C8_EngineAlwaysFreed ==
    /\ (cs.pc \in {"done", "raised"} /\ "ctc_init" \in Range(cs.trace)) =>
          "free" \in Range(cs.trace)
    /\ (cs.pc # "idle" /\ cs.transcript = "") =>
          /\ cs.pc = "raised"
          /\ cs.error = "ValueError"
          /\ Range(cs.trace) \cap {"ctc_init", "align", "free"} = {}

\* the words of the returned profile, in order
ProfileCodes == [k \in 1..Len(cs.profile.words) |-> cs.profile.words[k].codes]

\* C9 as stated: the words of a returned profile are in alignment order and
\* their codes, concatenated, are the encoding full_codes[0][0].
C9_CodesReconstructEncoding ==
    cs.pc = "done" =>
        /\ Len(cs.profile.words) = Len(cs.words)
        /\ \A k \in 1..Len(cs.words) : cs.profile.words[k].word = cs.words[k].word
        /\ Flatten(ProfileCodes) = cs.full_codes[1][1]

\* word k's span in the encoding is empty
EmptySpan(k) ==
    LET n == Len(cs.full_codes[1][1])
        start == IF k = 1 THEN 0 ELSE EndIndex(cs.words[k - 1].x1)
        end == EndIndex(cs.words[k].x1)
    IN  Min(end, n) <= Min(start, n)

\* C9 amended: the words of a returned profile are in alignment order; a
\* word whose span in the encoding is empty has the single code 1; the codes
\* of the other words, concatenated, are the encoding up to the last word's
\* end index (the whole encoding when that index reaches its length).
C9_CodesReconstructPrefix ==
    cs.pc = "done" =>
        LET full == cs.full_codes[1][1]
            n == Len(cs.words)
            kept == SelectSeq([k \in 1..n |-> k], LAMBDA k : ~EmptySpan(k))
        IN  /\ Len(cs.profile.words) = n
            /\ \A k \in 1..n : cs.profile.words[k].word = cs.words[k].word
            /\ \A k \in 1..n : EmptySpan(k) => cs.profile.words[k].codes = <<1>>
            /\ Flatten([i \in 1..Len(kept) |-> cs.profile.words[kept[i]].codes])
                 = SubSeq(full, 1, Min(EndIndex(cs.words[n].x1), Len(full)))

\* two words, the first with an empty span, and a tail of the encoding that
\* no word covers
C9_Witness ==
    /\ cs.pc = "done"
    /\ Len(cs.words) = 2
    /\ EmptySpan(1)
    /\ ~EmptySpan(2)
    /\ Len(cs.full_codes[1][1]) = 3
    /\ EndIndex(cs.words[2].x1) = 2
    /\ cs.profile.words[2].codes = SubSeq(cs.full_codes[1][1], 1, 2)

\* C10: whatever chunk decodes fail, the tokens of the yielded outputs, taken
\* in order, are tokens the backend emitted, in strictly increasing position
\* (none twice, none out of order); a run that ends without an exception has
\* yielded every emitted token.
C10_NoTokenLostOrRepeated ==
    LET flat == Flatten(gen.chunks) IN
    /\ \A i \in 1..Len(flat) : flat[i][1] \in 1..gen.emitted
    /\ \A i, j \in 1..Len(flat) : i < j => flat[i][1] < flat[j][1]
    /\ gen.pc = "done" =>
          /\ Len(flat) = gen.emitted
          /\ \A i \in 1..Len(flat) : flat[i][1] = i

\* a run with a caught failure that still ended normally
C10_Witness ==
    /\ gen.pc = "done"
    /\ gen.caught >= 1
    /\ gen.emitted = 5
    /\ Len(gen.chunks) >= 2

====
